---- MODULE Spec2Model ----
(***************************************************************************)
(* Block application and chain mutation core of the node                   *)
(* (modules/chain/submodules/blocks/chain.js): applyBlock and              *)
(* deleteLastBlock as callback-by-callback state machines over the         *)
(* Last-Block Register, the Is-Active flag, the persistence layer, the     *)
(* account store, the rounds controller, the transaction pool and the bus. *)
(***************************************************************************)
EXTENDS Integers, Sequences, FiniteSets, TLC

\* ------------------------------------------------------------------------
\* Bounds of the model
\* ------------------------------------------------------------------------
MaxTxs == 3
MaxOps == 3
MaxGenesisTxs == 4
MaxRequests == 2
MaxProcedureLen == 2
MaxPeers == 2
MaxFlights == 2

\* ------------------------------------------------------------------------
\* Data
\* ------------------------------------------------------------------------
None == "none"

AccountKeys == {"a", "b"}

TxIds == {"t1", "t2", "t3"}

\* Transfer transactions: t2 spends what its sender only owns through t1.
Transaction(id) ==
    CASE id = "t1" -> [id |-> "t1", senderPublicKey |-> "a", recipientId |-> "b", amount |-> 2]
      [] id = "t2" -> [id |-> "t2", senderPublicKey |-> "b", recipientId |-> "a", amount |-> 1]
      [] OTHER     -> [id |-> "t3", senderPublicKey |-> "a", recipientId |-> "b", amount |-> 1]

GenesisAccounts ==
    [k \in AccountKeys |->
        IF k = "a" THEN [balance |-> 2, u_balance |-> 2]
                   ELSE [balance |-> 0, u_balance |-> 0]]

GenesisBlock ==
    [id |-> "G", height |-> 1, previousBlock |-> None, transactions |-> << >>]

\* A block persisted by an earlier run of the node, not yet applied to the
\* memory tables (it is applied with saveBlock = false).
StoredBlock ==
    [id |-> "P", height |-> 2, previousBlock |-> "G", transactions |-> <<"t3">>]

\* Id of the block the n-th operation is called with.
BlockId(n) == "B" \o ToString(n)

UnknownId == "X"

Reverse(s) == [i \in 1..Len(s) |-> s[Len(s) + 1 - i]]

Range(s) == {s[i] : i \in 1..Len(s)}

TxSeqs ==
    {s \in UNION {[1..n -> TxIds] : n \in 0..MaxTxs} :
        \A i, j \in 1..Len(s) : i # j => s[i] # s[j]}

Block(id, height, previousBlock, transactions) ==
    [id |-> id, height |-> height, previousBlock |-> previousBlock,
     transactions |-> transactions]

\* Candidate blocks handed to applyBlock with saveBlock = true: successors of
\* the tip, a block with another parent and a block of the tip's own height.
Candidates(id, last) ==
    {Block(id, last.height + 1, last.id, s) : s \in TxSeqs}
    \cup {Block(id, last.height + 1, UnknownId, <<"t1">>),
          Block(id, last.height, last.id, <<"t1">>)}

IsSuccessor(b, last) ==
    b.height = last.height + 1 /\ b.previousBlock = last.id

\* ------------------------------------------------------------------------
\* Transaction executor (modules.transactions) on the account store
\* ------------------------------------------------------------------------
CanApplyUnconfirmed(acc, id) ==
    acc[Transaction(id).senderPublicKey].u_balance >= Transaction(id).amount

ApplyUnconfirmedEffect(acc, id) ==
    LET t == Transaction(id) IN
    [acc EXCEPT ![t.senderPublicKey].u_balance = @ - t.amount,
                ![t.recipientId].u_balance = @ + t.amount]

UndoUnconfirmedEffect(acc, id) ==
    LET t == Transaction(id) IN
    [acc EXCEPT ![t.senderPublicKey].u_balance = @ + t.amount,
                ![t.recipientId].u_balance = @ - t.amount]

CanApply(acc, id) ==
    acc[Transaction(id).senderPublicKey].balance >= Transaction(id).amount

ApplyEffect(acc, id) ==
    LET t == Transaction(id) IN
    [acc EXCEPT ![t.senderPublicKey].balance = @ - t.amount,
                ![t.recipientId].balance = @ + t.amount]

UndoEffect(acc, id) ==
    LET t == Transaction(id) IN
    [acc EXCEPT ![t.senderPublicKey].balance = @ + t.amount,
                ![t.recipientId].balance = @ - t.amount]

RECURSIVE UndoUnconfirmedAll(_, _)
UndoUnconfirmedAll(acc, ids) ==
    IF ids = {} THEN acc
    ELSE LET id == CHOOSE x \in ids : TRUE
         IN UndoUnconfirmedAll(UndoUnconfirmedEffect(acc, id), ids \ {id})

\* ------------------------------------------------------------------------
\* Persistence layer
\* ------------------------------------------------------------------------
PersistedTxIds(blocks) == UNION {Range(b.transactions) : b \in blocks}

\* blocks is keyed by id, height is unique; transactions is keyed by id.
KeyConflict(blocks, b) ==
    \/ \E x \in blocks : x.id = b.id \/ x.height = b.height
    \/ Range(b.transactions) \cap PersistedTxIds(blocks) # {}

LoadBlocksPart(blocks, id) == {b \in blocks : b.id = id}

\* ------------------------------------------------------------------------
\* State
\* ------------------------------------------------------------------------
VARIABLES
    pc,          \* position of the operation in flight
    pending,     \* collaborator call whose callback is awaited
    idx,         \* position of mapSeries in block.transactions
    op,          \* arguments and entry state of the operation in flight / last completed
    previousBlock, \* popLastBlock's local
    lastBlock,   \* modules.blocks.lastBlock
    isActive,    \* modules.blocks.isActive
    db,          \* storage as seen through the persistence transaction
    committed,   \* durably committed storage
    pool,        \* transaction pool: unconfirmed transaction ids
    poolApplied, \* pool transactions whose unconfirmed effect is on the balances
    bus,         \* messages emitted by the operation in flight / last completed
    calls,       \* collaborator calls made by the operation in flight / last completed
    result,      \* what the callback of the operation completed by the last step received
    sigterm,     \* process.emit('SIGTERM') happened
    rt,          \* bookkeeping of an applyBlock followed by deleteLastBlock
    ops,         \* number of operations called so far
    genesisblock, \* library.genesisblock.block
    engine,      \* Array.prototype.sort of the runtime the node runs on
    saved,       \* bookkeeping of the saveGenesisBlock calls that succeeded
    flights,     \* applyBlock / deleteLastBlock calls of callers that do not queue them
    flightLog,   \* writes of the last-block register by these calls, in their order
    requests,    \* inbound peer requests handed to the EVENT_REQUEST_RECEIVED handler
    peerStore,   \* storage.entities.Peer: the saved peers
    connectedPeers, \* p2p.getNetworkStatus().connectedPeers
    cleanupPc,   \* position of Network.cleanup
    netCalls     \* calls made by Network.cleanup

vars == <<pc, pending, idx, op, previousBlock, lastBlock, isActive, db, committed,
          pool, poolApplied, bus, calls, result, sigterm, rt, ops,
          genesisblock, engine, saved, flights, flightLog, requests, peerStore,
          connectedPeers, cleanupPc, netCalls>>

genesisVars == <<genesisblock, engine, saved>>

overlapVars == <<flights, flightLog>>

netVars == <<requests, peerStore, connectedPeers, cleanupPc, netCalls>>

chainVars == <<pc, pending, idx, op, previousBlock, lastBlock, isActive, db, committed,
               pool, poolApplied, bus, calls, result, sigterm, rt, ops>>

\* No call of a caller that does not queue its calls.
NoFlights == flights = << >> /\ flightLog = << >>

\* The network module before it is looked at.
NetIdle ==
    /\ requests = << >>
    /\ peerStore = {}
    /\ connectedPeers = << >>
    /\ cleanupPc = "idle"
    /\ netCalls = << >>

\* Stands for JavaScript's undefined where a block is expected.
NoBlock == [id |-> None, height |-> 0, previousBlock |-> None, transactions |-> << >>]

NoResult == [op |-> None, err |-> None, value |-> NoBlock]

NoSnapshot == [lastBlock |-> NoBlock, blocks |-> {}, accounts |-> GenesisAccounts,
               pool |-> {}]

NoOp == [name |-> None, block |-> NoBlock, saveBlock |-> FALSE, successor |-> FALSE,
         pre |-> NoSnapshot, failed |-> FALSE, committed |-> FALSE]

NoSaved == [count |-> 0, wrote |-> FALSE, blocks |-> {}]

NoRt == [phase |-> None, block |-> NoBlock, pre |-> NoSnapshot,
         accounts |-> GenesisAccounts, reinserted |-> FALSE]

\* Pending transactions of the pool when the node is first observed; their
\* unconfirmed effect is on the unconfirmed balances.
InitPools == {{}, {"t1"}}

Storage(blocks, p) ==
    [blocks |-> blocks, rounds |-> {GenesisBlock.id},
     accounts |-> IF p = {} THEN GenesisAccounts
                  ELSE ApplyUnconfirmedEffect(GenesisAccounts, "t1")]

Init ==
    /\ pc = "idle"
    /\ pending = None
    /\ idx = 1
    /\ op = NoOp
    /\ previousBlock = NoBlock
    /\ lastBlock = GenesisBlock
    /\ isActive = FALSE
    /\ \E blocks \in {{GenesisBlock}, {GenesisBlock, StoredBlock}}, p \in InitPools :
          /\ db = Storage(blocks, p)
          /\ committed = Storage(blocks, p)
          /\ pool = p
          /\ poolApplied = p
    /\ bus = << >>
    /\ calls = << >>
    /\ result = NoResult
    /\ sigterm = FALSE
    /\ rt = NoRt
    /\ ops = 0
    /\ genesisblock = GenesisBlock
    /\ engine = "timsort"
    /\ saved = NoSaved
    /\ NoFlights
    /\ NetIdle

\* A collaborator call with its arguments (ids).
Call(name, args) == [call |-> name, args |-> args]

Message(name, block) == [msg |-> name, block |-> block.id]

Snapshot == [lastBlock |-> lastBlock, blocks |-> committed.blocks,
             accounts |-> committed.accounts, pool |-> pool]

\* ------------------------------------------------------------------------
\* applyBlock
\* ------------------------------------------------------------------------
Txs == op.block.transactions

\* mapSeries walking the transactions from the tail.
StepTransactionFromTail(block, i) == block.transactions[Len(block.transactions) + 1 - i]

\* The transaction mapSeries hands to the i-th step of applyUnconfirmedStep
\* and of applyConfirmedStep.
StepTransaction(block, i) == block.transactions[i]

\* Entry of Chain.prototype.applyBlock: undoUnconfirmedListStep is invoked.
Invoke(name, block, saveBlock) ==
    /\ pc = "idle"
    /\ ~sigterm
    /\ ops < MaxOps
    /\ ops' = ops + 1
    /\ op' = [name |-> name, block |-> block, saveBlock |-> saveBlock,
              successor |-> IsSuccessor(block, lastBlock), pre |-> Snapshot,
              failed |-> FALSE, committed |-> FALSE]
    /\ bus' = << >>
    /\ idx' = 1
    /\ previousBlock' = NoBlock

\* A callback that is called without the error.
CallbackSwallowingError(err) ==
    /\ pc' = "idle"
    /\ pending' = None
    /\ result' = [op |-> op.name, err |-> None, value |-> NoBlock]

\* The callback handed to applyBlock is called with err.
Callback(err) ==
    /\ pc' = "idle"
    /\ pending' = None
    /\ result' = [op |-> op.name, err |-> err, value |-> NoBlock]

\* applyBlock with the check of parent and height that it does not have.
ApplyBlockValidating(block, saveBlock) ==
    /\ Invoke("applyBlock", block, saveBlock)
    /\ IF IsSuccessor(block, lastBlock)
       THEN /\ pc' = "undoUnconfirmedListStep"
            /\ pending' = "undoUnconfirmedList"
            /\ calls' = <<Call("undoUnconfirmedList", << >>)>>
            /\ result' = NoResult
       ELSE /\ pc' = "idle"
            /\ pending' = None
            /\ calls' = << >>
            /\ result' = [op |-> "applyBlock", err |-> "ValidationError", value |-> NoBlock]
    /\ rt' = NoRt
    /\ UNCHANGED <<lastBlock, isActive, db, committed, pool, poolApplied, sigterm>>
    /\ UNCHANGED <<genesisVars, overlapVars, netVars>>

ApplyBlock(block, saveBlock) ==
    /\ Invoke("applyBlock", block, saveBlock)
    /\ pc' = "undoUnconfirmedListStep"
    /\ pending' = "undoUnconfirmedList"
    /\ calls' = <<Call("undoUnconfirmedList", << >>)>>
    /\ result' = NoResult
    /\ rt' = NoRt
    /\ UNCHANGED <<lastBlock, isActive, db, committed, pool, poolApplied, sigterm>>
    /\ UNCHANGED <<genesisVars, overlapVars, netVars>>

\* The callers: blocks received or forged are saved, blocks loaded from
\* storage are applied with saveBlock = false.
ApplyBlockRequest ==
    \/ \E block \in Candidates(BlockId(ops + 1), lastBlock) : ApplyBlock(block, TRUE)
    \/ \E block \in committed.blocks :
          /\ block.height = lastBlock.height + 1
          /\ ApplyBlock(block, FALSE)

\* A .catch without the snapshot case.
NeverSnapshotFinished(reason) == FALSE

\* reason.name === 'Snapshot finished'
IsSnapshotFinished(reason) == reason = "Snapshot finished"

\* A .catch that forgets isActive.set(false).
CatchKeepingActive(reason) ==
    /\ db' = committed
    /\ isActive' = isActive
    /\ sigterm' = (sigterm \/ IsSnapshotFinished(reason))
    /\ op' = [op EXCEPT !.failed = TRUE]
    /\ Callback(reason)
    /\ UNCHANGED <<idx, previousBlock, lastBlock, committed, pool, poolApplied,
                   bus, calls, rt, ops>>

\* .catch of applyBlock: the persistence transaction is rolled back.
Catch(reason) ==
    /\ db' = committed
    /\ isActive' = FALSE
    /\ sigterm' = (sigterm \/ IsSnapshotFinished(reason))
    /\ op' = [op EXCEPT !.failed = TRUE]
    /\ Callback(reason)
    /\ UNCHANGED <<idx, previousBlock, lastBlock, committed, pool, poolApplied,
                   bus, calls, rt, ops>>

\* An applyBlock that opens its transaction although undoUnconfirmedList failed.
UndoUnconfirmedListStepContinuing ==
    /\ UNCHANGED <<genesisVars, overlapVars, netVars>>
    /\ pc = "undoUnconfirmedListStep"
    /\ \E ok \in BOOLEAN :
          /\ op' = [op EXCEPT !.failed = ~ok]
          /\ LET acc == IF ok THEN UndoUnconfirmedAll(db.accounts, poolApplied)
                               ELSE db.accounts
             IN /\ db' = [db EXCEPT !.accounts = acc]
                /\ committed' = [committed EXCEPT !.accounts = acc]
          /\ poolApplied' = IF ok THEN {} ELSE poolApplied
    /\ isActive' = TRUE
    /\ pc' = "applyUnconfirmedStep"
    /\ pending' = None
    /\ UNCHANGED <<idx, previousBlock, lastBlock, pool, bus, calls, result, sigterm,
                   rt, ops>>

\* Callback of undoUnconfirmedList; on success db.tx('Chain:applyBlock') opens.
UndoUnconfirmedListStep ==
    /\ UNCHANGED <<genesisVars, overlapVars, netVars>>
    /\ pc = "undoUnconfirmedListStep"
    /\ \E ok \in BOOLEAN :
          IF ok
          THEN /\ LET acc == UndoUnconfirmedAll(db.accounts, poolApplied)
                  IN /\ db' = [db EXCEPT !.accounts = acc]
                     /\ committed' = [committed EXCEPT !.accounts = acc]
               /\ poolApplied' = {}
               /\ isActive' = TRUE
               /\ pc' = "applyUnconfirmedStep"
               /\ pending' = None
               /\ UNCHANGED <<op, result, sigterm>>
          ELSE /\ op' = [op EXCEPT !.failed = TRUE]
               /\ Callback("Failed to undo unconfirmed list")
               /\ UNCHANGED <<db, committed, poolApplied, isActive, sigterm>>
    /\ UNCHANGED <<idx, previousBlock, lastBlock, pool, bus, calls, rt, ops>>

\* mapSeries of applyUnconfirmedStep starts the next transaction.
ApplyUnconfirmedNext ==
    /\ UNCHANGED <<genesisVars, overlapVars, netVars>>
    /\ pc = "applyUnconfirmedStep"
    /\ pending = None
    /\ IF idx <= Len(Txs)
       THEN /\ pending' = "setAccountAndGet"
            /\ calls' = Append(calls, Call("setAccountAndGet", <<StepTransaction(op.block, idx)>>))
            /\ UNCHANGED <<pc, idx>>
       ELSE /\ pc' = "applyConfirmedStep"
            /\ idx' = 1
            /\ UNCHANGED <<pending, calls>>
    /\ UNCHANGED <<op, previousBlock, lastBlock, isActive, db, committed, pool,
                   poolApplied, bus, result, sigterm, rt, ops>>

ApplyUnconfirmedAccount ==
    /\ UNCHANGED <<genesisVars, overlapVars, netVars>>
    /\ pc = "applyUnconfirmedStep"
    /\ pending = "setAccountAndGet"
    /\ \E ok \in BOOLEAN :
          IF ok
          THEN /\ pending' = "applyUnconfirmed"
               /\ calls' = Append(calls, Call("applyUnconfirmed", <<StepTransaction(op.block, idx)>>))
               /\ UNCHANGED <<pc, idx, op, previousBlock, lastBlock, isActive, db,
                              committed, pool, poolApplied, bus, result, sigterm, rt, ops>>
          ELSE Catch("Failed to get account to apply unconfirmed transaction")

\* An unconfirmed apply whose effect is not seen by the following transactions.
ApplyUnconfirmedDiscarding ==
    /\ UNCHANGED <<genesisVars, overlapVars, netVars>>
    /\ pc = "applyUnconfirmedStep"
    /\ pending = "applyUnconfirmed"
    /\ \E ok \in BOOLEAN :
          IF ok /\ CanApplyUnconfirmed(db.accounts, StepTransaction(op.block, idx))
          THEN /\ db' = db
               /\ pending' = None
               /\ idx' = idx + 1
               /\ UNCHANGED <<pc, op, previousBlock, lastBlock, isActive, committed,
                              pool, poolApplied, bus, calls, result, sigterm, rt, ops>>
          ELSE Catch("Failed to apply unconfirmed transaction")

ApplyUnconfirmed ==
    /\ UNCHANGED <<genesisVars, overlapVars, netVars>>
    /\ pc = "applyUnconfirmedStep"
    /\ pending = "applyUnconfirmed"
    /\ \E ok \in BOOLEAN :
          IF ok /\ CanApplyUnconfirmed(db.accounts, StepTransaction(op.block, idx))
          THEN /\ db' = [db EXCEPT !.accounts =
                            ApplyUnconfirmedEffect(@, StepTransaction(op.block, idx))]
               /\ pending' = None
               /\ idx' = idx + 1
               /\ UNCHANGED <<pc, op, previousBlock, lastBlock, isActive, committed,
                              pool, poolApplied, bus, calls, result, sigterm, rt, ops>>
          ELSE Catch("Failed to apply unconfirmed transaction")

\* mapSeries of applyConfirmedStep starts the next transaction.
ApplyConfirmedNext ==
    /\ UNCHANGED <<genesisVars, overlapVars, netVars>>
    /\ pc = "applyConfirmedStep"
    /\ pending = None
    /\ IF idx <= Len(Txs)
       THEN /\ pending' = "getAccount"
            /\ calls' = Append(calls, Call("getAccount", <<StepTransaction(op.block, idx)>>))
            /\ UNCHANGED <<pc, idx>>
       ELSE /\ pc' = "saveBlockStep"
            /\ idx' = 1
            /\ UNCHANGED <<pending, calls>>
    /\ UNCHANGED <<op, previousBlock, lastBlock, isActive, db, committed, pool,
                   poolApplied, bus, result, sigterm, rt, ops>>

ApplyConfirmedAccount ==
    /\ UNCHANGED <<genesisVars, overlapVars, netVars>>
    /\ pc = "applyConfirmedStep"
    /\ pending = "getAccount"
    /\ \E ok \in BOOLEAN :
          IF ok
          THEN /\ pending' = "apply"
               /\ calls' = Append(calls, Call("apply", <<StepTransaction(op.block, idx)>>))
               /\ UNCHANGED <<pc, idx, op, previousBlock, lastBlock, isActive, db,
                              committed, pool, poolApplied, bus, result, sigterm, rt, ops>>
          ELSE Catch("Failed to get account to apply transaction")

ApplyConfirmed ==
    /\ UNCHANGED <<genesisVars, overlapVars, netVars>>
    /\ pc = "applyConfirmedStep"
    /\ pending = "apply"
    /\ \E ok \in BOOLEAN :
          IF ok /\ CanApply(db.accounts, StepTransaction(op.block, idx))
          THEN /\ db' = [db EXCEPT !.accounts =
                            ApplyEffect(@, StepTransaction(op.block, idx))]
               /\ pending' = None
               /\ idx' = idx + 1
               /\ UNCHANGED <<pc, op, previousBlock, lastBlock, isActive, committed,
                              pool, poolApplied, bus, calls, result, sigterm, rt, ops>>
          ELSE Catch("Failed to apply transaction")

\* Entry of __private.saveBlockStep.
SaveBlockStep ==
    /\ UNCHANGED <<genesisVars, overlapVars, netVars>>
    /\ pc = "saveBlockStep"
    /\ pending = None
    /\ lastBlock' = op.block
    /\ IF op.saveBlock
       THEN /\ pending' = "batch"
            /\ calls' = Append(calls, Call("batch", <<op.block.id>>))
            /\ bus' = bus
       ELSE /\ bus' = Append(bus, Message("newBlock", op.block))
            /\ pending' = "tick"
            /\ calls' = Append(calls, Call("tick", <<op.block.id>>))
    /\ UNCHANGED <<pc, idx, op, previousBlock, isActive, db, committed, pool,
                   poolApplied, result, sigterm, rt, ops>>

\* A saveBlock that ignores tx and writes in a transaction of its own.
SaveBlockCommitting ==
    /\ UNCHANGED <<genesisVars, overlapVars, netVars>>
    /\ pc = "saveBlockStep"
    /\ pending = "batch"
    /\ \E ok \in BOOLEAN :
          IF ok /\ ~KeyConflict(db.blocks, op.block)
          THEN /\ db' = [db EXCEPT !.blocks = @ \cup {op.block}]
               /\ committed' = [committed EXCEPT !.blocks = @ \cup {op.block}]
               /\ bus' = Append(bus, Message("transactionsSaved", op.block))
               /\ pending' = "afterSave"
               /\ calls' = Append(calls, Call("afterSave", <<op.block.id>>))
               /\ UNCHANGED <<pc, idx, op, previousBlock, lastBlock, isActive,
                              pool, poolApplied, result, sigterm, rt, ops>>
          ELSE Catch("Failed to save block")

\* Chain.prototype.saveBlock: tx.batch of the block row and the transaction rows.
SaveBlock ==
    /\ UNCHANGED <<genesisVars, overlapVars, netVars>>
    /\ pc = "saveBlockStep"
    /\ pending = "batch"
    /\ \E ok \in BOOLEAN :
          IF ok /\ ~KeyConflict(db.blocks, op.block)
          THEN /\ db' = [db EXCEPT !.blocks = @ \cup {op.block}]
               /\ bus' = Append(bus, Message("transactionsSaved", op.block))
               /\ pending' = "afterSave"
               /\ calls' = Append(calls, Call("afterSave", <<op.block.id>>))
               /\ UNCHANGED <<pc, idx, op, previousBlock, lastBlock, isActive,
                              committed, pool, poolApplied, result, sigterm, rt, ops>>
          ELSE Catch("Failed to save block")

\* __private.afterSave has run through; saveBlockStep's callback continues.
AfterSave ==
    /\ UNCHANGED <<genesisVars, overlapVars, netVars>>
    /\ pc = "saveBlockStep"
    /\ pending = "afterSave"
    /\ \E ok \in BOOLEAN :
          IF ok
          THEN /\ bus' = Append(bus, Message("newBlock", op.block))
               /\ pending' = "tick"
               /\ calls' = Append(calls, Call("tick", <<op.block.id>>))
               /\ UNCHANGED <<pc, idx, op, previousBlock, lastBlock, isActive, db,
                              committed, pool, poolApplied, result, sigterm, rt, ops>>
          ELSE Catch("Failed to save block")

\* Callback of modules.rounds.tick.
Tick ==
    /\ UNCHANGED <<genesisVars, overlapVars, netVars>>
    /\ pc = "saveBlockStep"
    /\ pending = "tick"
    /\ \E outcome \in {"ok", "Rounds#tick error", "Snapshot finished"} :
          IF outcome = "ok"
          THEN /\ db' = [db EXCEPT !.rounds = @ \cup {op.block.id}]
               /\ pending' = "commit"
               /\ UNCHANGED <<pc, idx, op, previousBlock, lastBlock, isActive,
                              committed, pool, poolApplied, bus, calls, result,
                              sigterm, rt, ops>>
          ELSE Catch(outcome)

\* A commit handler that leaves the pool alone.
RemoveNoTransaction(p, block) == p

RemoveUnconfirmedTransactions(p, block) == p \ Range(block.transactions)

\* The persistence transaction of applyBlock resolves: .then of applyBlock.
ApplyBlockCommit ==
    /\ UNCHANGED <<genesisVars, overlapVars, netVars>>
    /\ pc = "saveBlockStep"
    /\ pending = "commit"
    /\ \E ok \in BOOLEAN :
          IF ok
          THEN /\ committed' = db
               /\ pool' = RemoveUnconfirmedTransactions(pool, op.block)
               /\ poolApplied' = RemoveUnconfirmedTransactions(poolApplied, op.block)
               /\ isActive' = FALSE
               /\ op' = [op EXCEPT !.committed = TRUE]
               /\ Callback(None)
               /\ rt' = IF op.saveBlock /\ op.successor
                        THEN [phase |-> "applied", block |-> op.block, pre |-> op.pre,
                              accounts |-> committed.accounts, reinserted |-> FALSE]
                        ELSE NoRt
               /\ UNCHANGED <<idx, previousBlock, lastBlock, db, bus, calls, sigterm, ops>>
          ELSE Catch("Chain:applyBlock commit error")

\* ------------------------------------------------------------------------
\* deleteLastBlock
\* ------------------------------------------------------------------------
\* popLastBlock without the reverse().
UndoOrderAsDeclared(transactions) == transactions

\* The transactions popLastBlock undoes, in the order it undoes them:
\* oldLastBlock.transactions.reverse().
UndoOrder(transactions) == Reverse(transactions)

\* popLastBlock loading the old tip itself.
SecondLastBlockIdOwn(oldLastBlock) == oldLastBlock.id

\* The id popLastBlock loads the parent by: oldLastBlock.previousBlock.
SecondLastBlockId(oldLastBlock) == oldLastBlock.previousBlock

\* A genesis check that is off by one.
IsGenesisHeightZero(block) == block.height = 0

\* deleteLastBlock refuses a register of height 1.
IsGenesisHeight(block) == block.height = 1

\* A .catch that hands the error to the callback and lets the node go on.
ExitCallingBack ==
    /\ pc' = "idle"
    /\ pending' = None
    /\ db' = committed
    /\ op' = [op EXCEPT !.failed = TRUE]
    /\ result' = [op |-> op.name, err |-> "Blocks#popLastBlock error", value |-> NoBlock]
    /\ UNCHANGED <<idx, previousBlock, lastBlock, isActive, committed, pool,
                   poolApplied, bus, calls, sigterm, rt, ops>>

\* .catch of popLastBlock: process.exit(0); the open transaction is lost.
Exit ==
    /\ pc' = "exited"
    /\ pending' = None
    /\ db' = committed
    /\ op' = [op EXCEPT !.failed = TRUE]
    /\ UNCHANGED <<idx, previousBlock, lastBlock, isActive, committed, pool,
                   poolApplied, bus, calls, result, sigterm, rt, ops>>

\* Entry of Chain.prototype.deleteLastBlock.
DeleteLastBlock ==
    /\ UNCHANGED <<genesisVars, overlapVars, netVars>>
    /\ Invoke("deleteLastBlock", lastBlock, FALSE)
    /\ IF IsGenesisHeight(lastBlock)
       THEN /\ pc' = "idle"
            /\ pending' = None
            /\ calls' = << >>
            /\ result' = [op |-> "deleteLastBlock", err |-> "Cannot delete genesis block",
                          value |-> NoBlock]
            /\ rt' = NoRt
       ELSE /\ pc' = "popLastBlock"
            /\ pending' = "loadBlocksPart"
            /\ calls' = <<Call("loadBlocksPart", <<SecondLastBlockId(lastBlock)>>)>>
            /\ result' = NoResult
            /\ rt' = IF rt.phase = "applied" THEN [rt EXCEPT !.phase = "deleting"] ELSE NoRt
    /\ UNCHANGED <<lastBlock, isActive, db, committed, pool, poolApplied, sigterm>>

\* loadSecondLastBlockStep; on success the transactions of oldLastBlock, the
\* object the register holds, are reversed in place for the undo steps.
LoadSecondLastBlockStep ==
    /\ UNCHANGED <<genesisVars, overlapVars, netVars>>
    /\ pc = "popLastBlock"
    /\ pending = "loadBlocksPart"
    /\ \E ok \in BOOLEAN :
          LET blocks == LoadBlocksPart(db.blocks, SecondLastBlockId(lastBlock)) IN
          IF ok /\ blocks # {}
          THEN /\ previousBlock' = CHOOSE b \in blocks : TRUE
               /\ lastBlock' = [lastBlock EXCEPT !.transactions = UndoOrder(@)]
               /\ pc' = "undoStep"
               /\ pending' = None
               /\ idx' = 1
               /\ UNCHANGED <<op, isActive, db, committed, pool, poolApplied, bus,
                              calls, result, sigterm, rt, ops>>
          ELSE Exit

\* mapSeries of popLastBlock starts the undo of the next transaction, or
\* backwardTickStep once every transaction is undone.
UndoNext ==
    /\ UNCHANGED <<genesisVars, overlapVars, netVars>>
    /\ pc = "undoStep"
    /\ pending = None
    /\ IF idx <= Len(lastBlock.transactions)
       THEN /\ pending' = "getAccount"
            /\ calls' = Append(calls, Call("getAccount", <<lastBlock.transactions[idx]>>))
            /\ pc' = pc
       ELSE /\ pending' = "backwardTick"
            /\ calls' = Append(calls, Call("backwardTick", <<lastBlock.id, previousBlock.id>>))
            /\ pc' = "backwardTickStep"
    /\ UNCHANGED <<idx, op, previousBlock, lastBlock, isActive, db, committed, pool,
                   poolApplied, bus, result, sigterm, rt, ops>>

UndoAccount ==
    /\ UNCHANGED <<genesisVars, overlapVars, netVars>>
    /\ pc = "undoStep"
    /\ pending = "getAccount"
    /\ \E ok \in BOOLEAN :
          IF ok
          THEN /\ pending' = "undo"
               /\ calls' = Append(calls, Call("undo", <<lastBlock.transactions[idx]>>))
               /\ UNCHANGED <<pc, idx, op, previousBlock, lastBlock, isActive, db,
                              committed, pool, poolApplied, bus, result, sigterm, rt, ops>>
          ELSE Exit

UndoStep ==
    /\ UNCHANGED <<genesisVars, overlapVars, netVars>>
    /\ pc = "undoStep"
    /\ pending = "undo"
    /\ \E ok \in BOOLEAN :
          IF ok
          THEN /\ db' = [db EXCEPT !.accounts = UndoEffect(@, lastBlock.transactions[idx])]
               /\ pending' = "undoUnconfirmed"
               /\ calls' = Append(calls, Call("undoUnconfirmed", <<lastBlock.transactions[idx]>>))
               /\ UNCHANGED <<pc, idx, op, previousBlock, lastBlock, isActive,
                              committed, pool, poolApplied, bus, result, sigterm, rt, ops>>
          ELSE Exit

UndoUnconfirmStep ==
    /\ UNCHANGED <<genesisVars, overlapVars, netVars>>
    /\ pc = "undoStep"
    /\ pending = "undoUnconfirmed"
    /\ \E ok \in BOOLEAN :
          IF ok
          THEN /\ db' = [db EXCEPT !.accounts =
                            UndoUnconfirmedEffect(@, lastBlock.transactions[idx])]
               /\ pending' = None
               /\ idx' = idx + 1
               /\ UNCHANGED <<pc, op, previousBlock, lastBlock, isActive, committed,
                              pool, poolApplied, bus, calls, result, sigterm, rt, ops>>
          ELSE Exit

BackwardTickStep ==
    /\ UNCHANGED <<genesisVars, overlapVars, netVars>>
    /\ pc = "backwardTickStep"
    /\ pending = "backwardTick"
    /\ \E ok \in BOOLEAN :
          IF ok
          THEN /\ db' = [db EXCEPT !.rounds = @ \ {lastBlock.id}]
               /\ pc' = "deleteBlockStep"
               /\ pending' = "deleteBlock"
               /\ calls' = Append(calls, Call("deleteBlock", <<lastBlock.id>>))
               /\ UNCHANGED <<idx, op, previousBlock, lastBlock, isActive, committed,
                              pool, poolApplied, bus, result, sigterm, rt, ops>>
          ELSE Exit

DeleteRow(blocks, id) == {b \in blocks : b.id # id}

\* Chain.prototype.deleteBlock ignores the transaction handle it is given and
\* deletes through library.db: the delete is committed on its own.
DeleteBlock ==
    /\ UNCHANGED <<genesisVars, overlapVars, netVars>>
    /\ pc = "deleteBlockStep"
    /\ pending = "deleteBlock"
    /\ \E ok \in BOOLEAN :
          IF ok
          THEN /\ db' = [db EXCEPT !.blocks = DeleteRow(@, lastBlock.id)]
               /\ committed' = [committed EXCEPT !.blocks = DeleteRow(@, lastBlock.id)]
               /\ pending' = "commit"
               /\ UNCHANGED <<pc, idx, op, previousBlock, lastBlock, isActive, pool,
                              poolApplied, bus, calls, result, sigterm, rt, ops>>
          ELSE /\ Exit

\* The transactions deleteLastBlock hands to receiveTransactions:
\* lastBlock.transactions.reverse(), of the array popLastBlock reversed.
ReinsertOrder(transactions) == Reverse(transactions)

\* The persistence transaction of popLastBlock resolves; the second function
\* of the waterfall calls receiveTransactions.
PopLastBlockCommit ==
    /\ UNCHANGED <<genesisVars, overlapVars, netVars>>
    /\ pc = "deleteBlockStep"
    /\ pending = "commit"
    /\ \E ok \in BOOLEAN :
          IF ok
          THEN /\ committed' = db
               /\ op' = [op EXCEPT !.committed = TRUE]
               /\ lastBlock' = [lastBlock EXCEPT !.transactions = ReinsertOrder(@)]
               /\ pc' = "receiveTransactions"
               /\ pending' = "receiveTransactions"
               /\ calls' = Append(calls, Call("receiveTransactions",
                                              ReinsertOrder(lastBlock.transactions)))
               /\ UNCHANGED <<idx, previousBlock, isActive, db, pool, poolApplied,
                              bus, result, sigterm, rt, ops>>
          ELSE Exit

\* A callback of receiveTransactions that hands the pool's error to the caller.
ReceiveTransactionsReportingError ==
    /\ UNCHANGED <<genesisVars, overlapVars, netVars>>
    /\ pc = "receiveTransactions"
    /\ pending = "receiveTransactions"
    /\ \E ok \in BOOLEAN :
          /\ pool' = IF ok THEN pool \cup Range(lastBlock.transactions) ELSE pool
          /\ rt' = IF rt.phase = "deleting"
                   THEN [rt EXCEPT !.phase = "deleted", !.reinserted = ok]
                   ELSE NoRt
          /\ lastBlock' = IF ok THEN previousBlock ELSE lastBlock
          /\ result' = IF ok
                       THEN [op |-> "deleteLastBlock", err |-> None, value |-> previousBlock]
                       ELSE [op |-> "deleteLastBlock", err |-> "receiveTransactions error",
                             value |-> NoBlock]
    /\ pc' = "idle"
    /\ pending' = None
    /\ UNCHANGED <<idx, op, previousBlock, isActive, db, committed, poolApplied, bus,
                   calls, sigterm, ops>>

\* Callback of receiveTransactions: an error is logged only.
ReceiveTransactions ==
    /\ UNCHANGED <<genesisVars, overlapVars, netVars>>
    /\ pc = "receiveTransactions"
    /\ pending = "receiveTransactions"
    /\ \E ok \in BOOLEAN :
          /\ pool' = IF ok THEN pool \cup Range(lastBlock.transactions) ELSE pool
          /\ rt' = IF rt.phase = "deleting"
                   THEN [rt EXCEPT !.phase = "deleted", !.reinserted = ok]
                   ELSE NoRt
    /\ lastBlock' = previousBlock
    /\ pc' = "idle"
    /\ pending' = None
    /\ result' = [op |-> "deleteLastBlock", err |-> None, value |-> previousBlock]
    /\ UNCHANGED <<idx, op, previousBlock, isActive, db, committed, poolApplied, bus,
                   calls, sigterm, ops>>

Next ==
    \/ ApplyBlockRequest
    \/ UndoUnconfirmedListStep
    \/ ApplyUnconfirmedNext
    \/ ApplyUnconfirmedAccount
    \/ ApplyUnconfirmed
    \/ ApplyConfirmedNext
    \/ ApplyConfirmedAccount
    \/ ApplyConfirmed
    \/ SaveBlockStep
    \/ SaveBlock
    \/ AfterSave
    \/ Tick
    \/ ApplyBlockCommit
    \/ DeleteLastBlock
    \/ LoadSecondLastBlockStep
    \/ UndoNext
    \/ UndoAccount
    \/ UndoStep
    \/ UndoUnconfirmStep
    \/ BackwardTickStep
    \/ DeleteBlock
    \/ PopLastBlockCommit
    \/ ReceiveTransactions

Spec == Init /\ [][Next]_vars

\* ------------------------------------------------------------------------
\* Genesis block: data
\* ------------------------------------------------------------------------
GenesisTxIds == {"g" \o ToString(n) : n \in 1..MaxGenesisTxs}

\* Genesis transactions alternate: g1 SEND, g2 VOTE, g3 SEND, g4 VOTE, ...
GenesisTransaction(id) ==
    LET n == CHOOSE k \in 1..MaxGenesisTxs : id = "g" \o ToString(k) IN
    IF n % 2 = 0
    THEN [id |-> id, type |-> "VOTE", senderPublicKey |-> "b", recipientId |-> "b",
          amount |-> 0]
    ELSE [id |-> id, type |-> "SEND", senderPublicKey |-> "a", recipientId |-> "b",
          amount |-> 1]

GenesisTxSeqs ==
    {s \in UNION {[1..n -> GenesisTxIds] : n \in 0..MaxGenesisTxs} :
        \A i, j \in 1..Len(s) : i # j => s[i] # s[j]}

GenesisUnconfirmedEffect(acc, id) ==
    LET t == GenesisTransaction(id) IN
    [acc EXCEPT ![t.senderPublicKey].u_balance = @ - t.amount,
                ![t.recipientId].u_balance = @ + t.amount]

GenesisConfirmedEffect(acc, id) ==
    LET t == GenesisTransaction(id) IN
    [acc EXCEPT ![t.senderPublicKey].balance = @ - t.amount,
                ![t.recipientId].balance = @ + t.amount]

\* ------------------------------------------------------------------------
\* Array.prototype.sort with the comparator of applyGenesisBlock
\* ------------------------------------------------------------------------
\* The comparator looks at its first argument only.
Comparator(a, b) == IF GenesisTransaction(a).type = "VOTE" THEN 1 ELSE 0

\* V8 up to 6.x (Node.js 10 and older), arrays of at most 10 elements:
\* InsertionSort, which calls comparefn(a[j], element) with a[j] the earlier
\* element and shifts a[j] to the right while the result is positive.
RECURSIVE ShiftPosition(_, _, _)
ShiftPosition(a, element, j) ==
    IF j >= 1 /\ Comparator(a[j], element) > 0
    THEN ShiftPosition(a, element, j - 1)
    ELSE j

RECURSIVE InsertionSortFrom(_, _)
InsertionSortFrom(a, i) ==
    IF i > Len(a) THEN a
    ELSE LET element == a[i]
             j == ShiftPosition(a, element, i - 1)
         IN InsertionSortFrom(SubSeq(a, 1, j) \o <<element>> \o SubSeq(a, j + 1, i - 1)
                                  \o SubSeq(a, i + 1, Len(a)),
                              i + 1)

InsertionSort(a) == InsertionSortFrom(a, 2)

\* V8 from 7.0 on (Node.js 11 and newer), arrays shorter than 64 elements:
\* TimSort counts one run from the start, calling comparefn(a[i], a[i-1])
\* with a[i] the later element, reverses it if it is strictly descending and
\* places the rest by binary insertion, calling comparefn(pivot, a[mid]).
RECURSIVE RunLength(_, _, _)
RunLength(a, descending, i) ==
    IF i > Len(a) THEN i - 1
    ELSE LET order == Comparator(a[i], a[i - 1]) IN
         IF (descending /\ order >= 0) \/ (~descending /\ order < 0)
         THEN i - 1
         ELSE RunLength(a, descending, i + 1)

CountAndMakeRun(a) ==
    LET descending == Comparator(a[2], a[1]) < 0
        n == RunLength(a, descending, 3)
    IN [run |-> n,
        array |-> IF descending
                  THEN Reverse(SubSeq(a, 1, n)) \o SubSeq(a, n + 1, Len(a))
                  ELSE a]

RECURSIVE BinaryInsertionPoint(_, _, _, _)
BinaryInsertionPoint(a, pivot, left, right) ==
    IF left >= right THEN left
    ELSE LET mid == left + ((right - left) \div 2) IN
         IF Comparator(pivot, a[mid + 1]) < 0
         THEN BinaryInsertionPoint(a, pivot, left, mid)
         ELSE BinaryInsertionPoint(a, pivot, mid + 1, right)

RECURSIVE BinaryInsertionSort(_, _)
BinaryInsertionSort(a, start) ==
    IF start >= Len(a) THEN a
    ELSE LET pivot == a[start + 1]
             left == BinaryInsertionPoint(a, pivot, 0, start)
         IN BinaryInsertionSort(SubSeq(a, 1, left) \o <<pivot>> \o SubSeq(a, left + 1, start)
                                    \o SubSeq(a, start + 2, Len(a)),
                                start + 1)

TimSort(a) ==
    IF Len(a) < 2 THEN a
    ELSE LET r == CountAndMakeRun(a) IN BinaryInsertionSort(r.array, r.run)

Engines == {"insertion", "timsort"}

\* block.transactions.sort(a => a.type === VOTE ? 1 : 0) on the given engine.
SortTransactions(e, transactions) ==
    IF e = "insertion" THEN InsertionSort(transactions) ELSE TimSort(transactions)

\* ------------------------------------------------------------------------
\* saveGenesisBlock and applyGenesisBlock
\* ------------------------------------------------------------------------
\* The node at bootstrap: the register is unset, storage is empty or holds the
\* genesis row an earlier run saved, the memory tables are empty.
InitGenesis ==
    /\ pc = "idle"
    /\ pending = None
    /\ idx = 1
    /\ op = NoOp
    /\ previousBlock = NoBlock
    /\ lastBlock = NoBlock
    /\ isActive = FALSE
    /\ \E raw \in GenesisTxSeqs : \E blocks \in {{}, {Block("G", 1, None, raw)}} :
          /\ genesisblock = Block("G", 1, None, raw)
          /\ db = [blocks |-> blocks, rounds |-> {}, accounts |-> GenesisAccounts]
          /\ committed = [blocks |-> blocks, rounds |-> {}, accounts |-> GenesisAccounts]
    /\ pool = {}
    /\ poolApplied = {}
    /\ bus = << >>
    /\ calls = << >>
    /\ result = NoResult
    /\ sigterm = FALSE
    /\ rt = NoRt
    /\ ops = 0
    /\ engine \in Engines
    /\ saved = NoSaved
    /\ NoFlights
    /\ NetIdle

\* Entry of Chain.prototype.saveGenesisBlock.
SaveGenesisBlock ==
    /\ UNCHANGED <<overlapVars, netVars>>
    /\ Invoke("saveGenesisBlock", genesisblock, TRUE)
    /\ pc' = "saveGenesisBlock"
    /\ pending' = "getGenesisBlockId"
    /\ calls' = <<Call("getGenesisBlockId", <<genesisblock.id>>)>>
    /\ result' = NoResult
    /\ UNCHANGED <<lastBlock, isActive, db, committed, pool, poolApplied, sigterm, rt,
                   genesisblock, engine, saved>>

\* A lookup that never finds the genesis row.
NoRows(blocks, id) == {}

\* rows of getGenesisBlockId
GenesisBlockRows(blocks, id) == {b \in blocks : b.id = id}

Succeeded(wrote) ==
    [count |-> saved.count + 1, wrote |-> saved.wrote \/ wrote,
     blocks |-> committed.blocks]

\* .then / .catch of getGenesisBlockId.
GetGenesisBlockId ==
    /\ UNCHANGED <<overlapVars, netVars>>
    /\ pc = "saveGenesisBlock"
    /\ pending = "getGenesisBlockId"
    /\ \E ok \in BOOLEAN :
          IF ~ok
          THEN /\ op' = [op EXCEPT !.failed = TRUE]
               /\ Callback("Blocks#saveGenesisBlock error")
               /\ UNCHANGED <<calls, saved>>
          ELSE IF GenesisBlockRows(committed.blocks, genesisblock.id) = {}
          THEN /\ pending' = "batch"
               /\ calls' = Append(calls, Call("batch", <<genesisblock.id>>))
               /\ UNCHANGED <<pc, op, result, saved>>
          ELSE /\ Callback(None)
               /\ saved' = Succeeded(FALSE)
               /\ UNCHANGED <<op, calls>>
    /\ UNCHANGED <<idx, previousBlock, lastBlock, isActive, db, committed, pool,
                   poolApplied, bus, sigterm, rt, ops, genesisblock, engine>>

\* saveBlock called without tx: saveBlockBatch in a transaction of its own.
SaveBlockBatch ==
    /\ UNCHANGED <<overlapVars, netVars>>
    /\ pc = "saveGenesisBlock"
    /\ pending = "batch"
    /\ \E ok \in BOOLEAN :
          IF ok /\ ~KeyConflict(committed.blocks, genesisblock)
          THEN /\ db' = [db EXCEPT !.blocks = @ \cup {genesisblock}]
               /\ committed' = [committed EXCEPT !.blocks = @ \cup {genesisblock}]
               /\ bus' = Append(bus, Message("transactionsSaved", genesisblock))
               /\ pending' = "afterSave"
               /\ calls' = Append(calls, Call("afterSave", <<genesisblock.id>>))
               /\ UNCHANGED <<pc, op, result>>
          ELSE /\ op' = [op EXCEPT !.failed = TRUE]
               /\ Callback("Blocks#saveBlock error")
               /\ UNCHANGED <<db, committed, bus, calls>>
    /\ UNCHANGED <<idx, previousBlock, lastBlock, isActive, pool, poolApplied, sigterm,
                   rt, ops, genesisblock, engine, saved>>

\* __private.afterSave has run through; the callback of saveGenesisBlock is called.
SaveGenesisBlockAfterSave ==
    /\ UNCHANGED <<overlapVars, netVars>>
    /\ pc = "saveGenesisBlock"
    /\ pending = "afterSave"
    /\ \E ok \in BOOLEAN :
          IF ok
          THEN /\ Callback(None)
               /\ saved' = Succeeded(TRUE)
               /\ UNCHANGED op
          ELSE /\ op' = [op EXCEPT !.failed = TRUE]
               /\ Callback("afterSave error")
               /\ UNCHANGED saved
    /\ UNCHANGED <<idx, previousBlock, lastBlock, isActive, db, committed, pool,
                   poolApplied, bus, calls, sigterm, rt, ops, genesisblock, engine>>

\* Entry of Chain.prototype.applyGenesisBlock, called with
\* library.genesisblock.block: the transactions are sorted in place.
ApplyGenesisBlock ==
    /\ UNCHANGED <<overlapVars, netVars>>
    /\ Invoke("applyGenesisBlock", genesisblock, FALSE)
    /\ genesisblock' = [genesisblock EXCEPT !.transactions = SortTransactions(engine, @)]
    /\ pc' = "applyGenesisBlock"
    /\ pending' = None
    /\ calls' = << >>
    /\ result' = NoResult
    /\ UNCHANGED <<lastBlock, isActive, db, committed, pool, poolApplied, sigterm, rt,
                   engine, saved>>

\* eachSeries walking the transactions from the tail.
EachSeriesItemFromTail(transactions, i) == transactions[Len(transactions) + 1 - i]

\* The transaction eachSeries hands to its i-th iteration.
EachSeriesItem(transactions, i) == transactions[i]

GenesisTx == EachSeriesItem(genesisblock.transactions, idx)

\* An error handler that hands the error to the caller and lets the node run.
ExitGenesisCallingBack ==
    /\ pc' = "idle"
    /\ pending' = None
    /\ op' = [op EXCEPT !.failed = TRUE]
    /\ result' = [op |-> op.name, err |-> "Failed to apply transaction", value |-> NoBlock]

\* Final callback of eachSeries with an error: process.exit(0).
ExitGenesis ==
    /\ pc' = "exited"
    /\ pending' = None
    /\ op' = [op EXCEPT !.failed = TRUE]
    /\ result' = result

\* eachSeries starts the next transaction, or its final callback sets the
\* register and invokes the round tick.
EachSeries ==
    /\ UNCHANGED <<overlapVars, netVars>>
    /\ pc = "applyGenesisBlock"
    /\ pending = None
    /\ IF idx <= Len(genesisblock.transactions)
       THEN /\ pending' = "setAccountAndGet"
            /\ calls' = Append(calls, Call("setAccountAndGet",
                                           <<GenesisTransaction(GenesisTx).senderPublicKey>>))
            /\ UNCHANGED lastBlock
       ELSE /\ lastBlock' = genesisblock
            /\ pending' = "tick"
            /\ calls' = Append(calls, Call("tick", <<genesisblock.id>>))
    /\ UNCHANGED <<pc, idx, op, previousBlock, isActive, db, committed, pool, poolApplied,
                   bus, result, sigterm, rt, ops, genesisblock, engine, saved>>

\* Callback of modules.accounts.setAccountAndGet.
SetAccountAndGet ==
    /\ UNCHANGED <<overlapVars, netVars>>
    /\ pc = "applyGenesisBlock"
    /\ pending = "setAccountAndGet"
    /\ \E ok \in BOOLEAN :
          IF ok
          THEN /\ pending' = "applyUnconfirmed"
               /\ calls' = Append(calls, Call("applyUnconfirmed", <<GenesisTx>>))
               /\ UNCHANGED <<pc, op, result>>
          ELSE /\ ExitGenesis
               /\ UNCHANGED calls
    /\ UNCHANGED <<idx, previousBlock, lastBlock, isActive, db, committed, pool,
                   poolApplied, bus, sigterm, rt, ops, genesisblock, engine, saved>>

\* __private.applyTransaction: callback of modules.transactions.applyUnconfirmed.
ApplyTransactionUnconfirmed ==
    /\ UNCHANGED <<overlapVars, netVars>>
    /\ pc = "applyGenesisBlock"
    /\ pending = "applyUnconfirmed"
    /\ \E ok \in BOOLEAN :
          IF ok
          THEN /\ LET acc == GenesisUnconfirmedEffect(committed.accounts, GenesisTx)
                  IN /\ db' = [db EXCEPT !.accounts = acc]
                     /\ committed' = [committed EXCEPT !.accounts = acc]
               /\ pending' = "apply"
               /\ calls' = Append(calls, Call("apply", <<GenesisTx>>))
               /\ UNCHANGED <<pc, op, result>>
          ELSE /\ ExitGenesis
               /\ UNCHANGED <<db, committed, calls>>
    /\ UNCHANGED <<idx, previousBlock, lastBlock, isActive, pool, poolApplied, bus,
                   sigterm, rt, ops, genesisblock, engine, saved>>

\* __private.applyTransaction: callback of modules.transactions.apply.
ApplyTransaction ==
    /\ UNCHANGED <<overlapVars, netVars>>
    /\ pc = "applyGenesisBlock"
    /\ pending = "apply"
    /\ \E ok \in BOOLEAN :
          IF ok
          THEN /\ LET acc == GenesisConfirmedEffect(committed.accounts, GenesisTx)
                  IN /\ db' = [db EXCEPT !.accounts = acc]
                     /\ committed' = [committed EXCEPT !.accounts = acc]
               /\ idx' = idx + 1
               /\ pending' = None
               /\ UNCHANGED <<pc, op, result>>
          ELSE /\ ExitGenesis
               /\ UNCHANGED <<db, committed, idx>>
    /\ UNCHANGED <<previousBlock, lastBlock, isActive, pool, poolApplied, bus, calls,
                   sigterm, rt, ops, genesisblock, engine, saved>>

\* Callback of modules.rounds.tick: the callback of applyGenesisBlock itself.
GenesisTick ==
    /\ UNCHANGED <<overlapVars, netVars>>
    /\ pc = "applyGenesisBlock"
    /\ pending = "tick"
    /\ \E ok \in BOOLEAN :
          IF ok
          THEN /\ db' = [db EXCEPT !.rounds = @ \cup {genesisblock.id}]
               /\ committed' = [committed EXCEPT !.rounds = @ \cup {genesisblock.id}]
               /\ Callback(None)
               /\ UNCHANGED op
          ELSE /\ op' = [op EXCEPT !.failed = TRUE]
               /\ Callback("Rounds#tick error")
               /\ UNCHANGED <<db, committed>>
    /\ UNCHANGED <<idx, previousBlock, lastBlock, isActive, pool, poolApplied, bus, calls,
                   sigterm, rt, ops, genesisblock, engine, saved>>

NextGenesis ==
    \/ SaveGenesisBlock
    \/ GetGenesisBlockId
    \/ SaveBlockBatch
    \/ SaveGenesisBlockAfterSave
    \/ ApplyGenesisBlock
    \/ EachSeries
    \/ SetAccountAndGet
    \/ ApplyTransactionUnconfirmed
    \/ ApplyTransaction
    \/ GenesisTick

SpecGenesis == InitGenesis /\ [][NextGenesis]_vars

\* ------------------------------------------------------------------------
\* Network module (modules/network/network.js): inbound peer requests
\* ------------------------------------------------------------------------
\* A procedure name is a string, kept as its sequence of characters.
Characters == {"a", ":"}

Procedures == UNION {[1..n -> Characters] : n \in 1..MaxProcedureLen}

ChainNamespace == <<"c", "h", "a", "i", "n", ":">>

\* hasNamespaceReg = /:/ ; hasNamespaceReg.test(request.procedure)
HasTargetModule(procedure) == \E i \in 1..Len(procedure) : procedure[i] = ":"

\* A handler that puts every procedure under chain.
SanitizedProcedureAlwaysChain(procedure) == ChainNamespace \o procedure

SanitizedProcedure(procedure) ==
    IF HasTargetModule(procedure) THEN procedure ELSE ChainNamespace \o procedure

InitRequests ==
    /\ pc = "idle"
    /\ pending = None
    /\ idx = 1
    /\ op = NoOp
    /\ previousBlock = NoBlock
    /\ lastBlock = GenesisBlock
    /\ isActive = FALSE
    /\ db = Storage({GenesisBlock}, {})
    /\ committed = Storage({GenesisBlock}, {})
    /\ pool = {}
    /\ poolApplied = {}
    /\ bus = << >>
    /\ calls = << >>
    /\ result = NoResult
    /\ sigterm = FALSE
    /\ rt = NoRt
    /\ ops = 0
    /\ genesisblock = GenesisBlock
    /\ engine = "timsort"
    /\ saved = NoSaved
    /\ NoFlights
    /\ NetIdle

\* The P2P library emits EVENT_REQUEST_RECEIVED: the handler runs up to its
\* await of channel.invokePublic, or returns at once.
RequestReceived ==
    /\ Len(requests) < MaxRequests
    /\ \E procedure \in Procedures, wasResponseSent \in BOOLEAN :
          requests' = Append(requests,
              [procedure |-> procedure,
               wasResponseSent |-> wasResponseSent,
               pc |-> IF wasResponseSent THEN "returned" ELSE "invokePublic",
               invoked |-> IF wasResponseSent THEN << >>
                           ELSE <<SanitizedProcedure(procedure)>>,
               responses |-> << >>,
               endThrew |-> FALSE])
    /\ UNCHANGED <<chainVars, genesisVars, overlapVars, peerStore, connectedPeers,
                   cleanupPc, netCalls>>

\* channel.invokePublic settles: request.end(result) in the try block, or
\* request.error(error) in the catch block, which also catches what
\* request.end throws.
InvokePublic ==
    /\ \E i \in 1..Len(requests) :
          /\ requests[i].pc = "invokePublic"
          /\ \E resolved \in BOOLEAN, endThrows \in BOOLEAN :
                requests' = [requests EXCEPT
                    ![i].pc = "returned",
                    ![i].endThrew = resolved /\ endThrows,
                    ![i].responses =
                        IF ~resolved THEN <<"error">>
                        ELSE IF endThrows THEN <<"end", "error">>
                        ELSE <<"end">>]
    /\ UNCHANGED <<chainVars, genesisVars, overlapVars, peerStore, connectedPeers,
                   cleanupPc, netCalls>>

NextRequests ==
    \/ RequestReceived
    \/ InvokePublic

SpecRequests == InitRequests /\ [][NextRequests]_vars

\* ------------------------------------------------------------------------
\* Network module: cleanup
\* ------------------------------------------------------------------------
DefaultState == 2

PeerIps == {"ip" \o ToString(n) : n \in 1..MaxPeers}

\* A connected peer as the P2P library reports it; state 0 and protocolVersion
\* "" stand for the falsy values (absent, 0, '').
ConnectedPeer == [ipAddress : PeerIps, state : {0, 1, 2}, protocolVersion : {"", "1.0"}]

ConnectedLists ==
    {s \in UNION {[1..n -> ConnectedPeer] : n \in 0..MaxPeers} :
        \A i, j \in 1..Len(s) : i # j => s[i].ipAddress # s[j].ipAddress}

\* The peers an earlier cleanup saved.
SavedPeers ==
    {[ip |-> "ip1", state |-> 1, protocolVersion |-> "0.9"],
     [ip |-> "ip0", state |-> 2, protocolVersion |-> ""]}

\* connectedPeers.map(peer => ...)
PeersToSave(connected) ==
    [i \in 1..Len(connected) |->
        [ip |-> connected[i].ipAddress,
         state |-> IF connected[i].state # 0 THEN connected[i].state ELSE DefaultState,
         protocolVersion |-> IF connected[i].protocolVersion # ""
                             THEN connected[i].protocolVersion ELSE ""]]

\* A cleanup that saves whatever the list holds.
AlwaysSave(peersToSave) == TRUE

\* peersToSave.length !== 0
ShouldSave(peersToSave) == Len(peersToSave) # 0

InitCleanup ==
    /\ pc = "idle"
    /\ pending = None
    /\ idx = 1
    /\ op = NoOp
    /\ previousBlock = NoBlock
    /\ lastBlock = GenesisBlock
    /\ isActive = FALSE
    /\ db = Storage({GenesisBlock}, {})
    /\ committed = Storage({GenesisBlock}, {})
    /\ pool = {}
    /\ poolApplied = {}
    /\ bus = << >>
    /\ calls = << >>
    /\ result = NoResult
    /\ sigterm = FALSE
    /\ rt = NoRt
    /\ ops = 0
    /\ genesisblock = GenesisBlock
    /\ engine = "timsort"
    /\ saved = NoSaved
    /\ NoFlights
    /\ requests = << >>
    /\ peerStore = SavedPeers
    /\ connectedPeers \in ConnectedLists
    /\ cleanupPc = "idle"
    /\ netCalls = << >>

\* Entry of Network.cleanup up to its first await, or to p2p.stop().
Cleanup ==
    /\ cleanupPc = "idle"
    /\ IF ShouldSave(PeersToSave(connectedPeers))
       THEN /\ cleanupPc' = "delete"
            /\ netCalls' = <<"getNetworkStatus", "Peer.delete">>
       ELSE /\ cleanupPc' = "stop"
            /\ netCalls' = <<"getNetworkStatus", "p2p.stop">>
    /\ UNCHANGED <<chainVars, genesisVars, overlapVars, requests, peerStore,
                   connectedPeers>>

\* await this.storage.entities.Peer.delete() settles.
PeerDelete ==
    /\ cleanupPc = "delete"
    /\ \E ok \in BOOLEAN :
          IF ok
          THEN /\ peerStore' = {}
               /\ cleanupPc' = "create"
               /\ netCalls' = Append(netCalls, "Peer.create")
          ELSE /\ cleanupPc' = "rejected"
               /\ UNCHANGED <<peerStore, netCalls>>
    /\ UNCHANGED <<chainVars, genesisVars, overlapVars, requests, connectedPeers>>

\* await this.storage.entities.Peer.create(peersToSave) settles.
PeerCreate ==
    /\ cleanupPc = "create"
    /\ \E ok \in BOOLEAN :
          IF ok
          THEN /\ peerStore' = peerStore \cup Range(PeersToSave(connectedPeers))
               /\ cleanupPc' = "stop"
               /\ netCalls' = Append(netCalls, "p2p.stop")
          ELSE /\ cleanupPc' = "rejected"
               /\ UNCHANGED <<peerStore, netCalls>>
    /\ UNCHANGED <<chainVars, genesisVars, overlapVars, requests, connectedPeers>>

\* The promise of this.p2p.stop(), which cleanup returns, settles.
P2pStop ==
    /\ cleanupPc = "stop"
    /\ \E ok \in BOOLEAN : cleanupPc' = IF ok THEN "stopped" ELSE "rejected"
    /\ UNCHANGED <<chainVars, genesisVars, overlapVars, requests, peerStore,
                   connectedPeers, netCalls>>

NextCleanup ==
    \/ Cleanup
    \/ PeerDelete
    \/ PeerCreate
    \/ P2pStop

SpecCleanup == InitCleanup /\ [][NextCleanup]_vars

\* ------------------------------------------------------------------------
\* applyBlock and deleteLastBlock called by a caller that does not wait
\* for the callback of the call before (chain.js holds library.balancesSequence,
\* lines 78-85, and never uses it; isActive is written and never read).
\* Each call is followed from callback to callback; only the last-block
\* register and the isActive flag, which the calls share, are kept.
\* ------------------------------------------------------------------------

\* The blocks the calls are about: a chain of three heights.
OverlapChain ==
    <<GenesisBlock,
      Block("B2", 2, GenesisBlock.id, <<"t1">>),
      Block("B3", 3, "B2", <<"t2">>)>>

OverlapFlight(name, block, step) ==
    [name |-> name, block |-> block, step |-> step, newLastBlock |-> NoBlock]

\* What the calls of this part leave alone.
overlapFrame == <<pc, pending, idx, op, previousBlock, db, committed, pool,
                  poolApplied, bus, calls, result, sigterm, rt, ops>>

\* The call has taken a step after its first one and has not settled its callback.
MidPipeline(f) ==
    f.step \in {"applyUnconfirmedStep", "applyConfirmedStep", "saveBlockStep",
                "then", "catch", "receiveTransactions"}

InitOverlap ==
    /\ pc = "idle"
    /\ pending = None
    /\ idx = 1
    /\ op = NoOp
    /\ previousBlock = NoBlock
    /\ lastBlock \in {OverlapChain[1], OverlapChain[2]}
    /\ isActive = FALSE
    /\ db = Storage({GenesisBlock}, {})
    /\ committed = Storage({GenesisBlock}, {})
    /\ pool = {}
    /\ poolApplied = {}
    /\ bus = << >>
    /\ calls = << >>
    /\ result = NoResult
    /\ sigterm = FALSE
    /\ rt = NoRt
    /\ ops = 0
    /\ genesisblock = GenesisBlock
    /\ engine = "timsort"
    /\ saved = NoSaved
    /\ NoFlights
    /\ NetIdle

\* Chain.prototype.applyBlock: nothing is looked at before the first step runs.
OverlapApplyBlock ==
    /\ Len(flights) < MaxFlights
    /\ \E h \in 2..Len(OverlapChain) :
          flights' = Append(flights,
                            OverlapFlight("applyBlock", OverlapChain[h],
                                          "undoUnconfirmedListStep"))
    /\ UNCHANGED <<lastBlock, isActive, flightLog, overlapFrame, genesisVars, netVars>>

\* Chain.prototype.deleteLastBlock: reads the register; a genesis tip is answered at once.
OverlapDeleteLastBlock ==
    /\ Len(flights) < MaxFlights
    /\ flights' = Append(flights,
                         OverlapFlight("deleteLastBlock", lastBlock,
                                       IF lastBlock.height = 1 THEN "callback"
                                       ELSE "popLastBlock"))
    /\ UNCHANGED <<lastBlock, isActive, flightLog, overlapFrame, genesisVars, netVars>>

\* Callback of undoUnconfirmedListStep: error to the caller, or db.tx is asked for.
OverlapUndoUnconfirmedListStep ==
    /\ \E i \in DOMAIN flights :
          /\ flights[i].step = "undoUnconfirmedListStep"
          /\ \E err \in BOOLEAN :
                flights' = [flights EXCEPT ![i].step = IF err THEN "callback" ELSE "tx"]
    /\ UNCHANGED <<lastBlock, isActive, flightLog, overlapFrame, genesisVars, netVars>>

\* The transaction callback: isActive.set(true), applyUnconfirmedStep starts.
OverlapTx ==
    /\ \E i \in DOMAIN flights :
          /\ flights[i].step = "tx"
          /\ flights' = [flights EXCEPT ![i].step = "applyUnconfirmedStep"]
    /\ isActive' = TRUE
    /\ UNCHANGED <<lastBlock, flightLog, overlapFrame, genesisVars, netVars>>

\* applyUnconfirmedStep settles.
OverlapApplyUnconfirmedStep ==
    /\ \E i \in DOMAIN flights :
          /\ flights[i].step = "applyUnconfirmedStep"
          /\ \E rejected \in BOOLEAN :
                flights' = [flights EXCEPT
                              ![i].step = IF rejected THEN "catch" ELSE "applyConfirmedStep"]
    /\ UNCHANGED <<lastBlock, isActive, flightLog, overlapFrame, genesisVars, netVars>>

\* applyConfirmedStep settles; when it resolves saveBlockStep starts with
\* lastBlock.set(block).
OverlapApplyConfirmedStep ==
    \E i \in DOMAIN flights :
       /\ flights[i].step = "applyConfirmedStep"
       /\ \E rejected \in BOOLEAN :
             /\ flights' = [flights EXCEPT
                              ![i].step = IF rejected THEN "catch" ELSE "saveBlockStep"]
             /\ lastBlock' = IF rejected THEN lastBlock ELSE flights[i].block
             /\ flightLog' = IF rejected THEN flightLog
                             ELSE Append(flightLog, <<i, flights[i].block.id>>)
       /\ UNCHANGED <<isActive, overlapFrame, genesisVars, netVars>>

\* saveBlockStep settles and with it the transaction.
OverlapSaveBlockStep ==
    /\ \E i \in DOMAIN flights :
          /\ flights[i].step = "saveBlockStep"
          /\ \E rejected \in BOOLEAN :
                flights' = [flights EXCEPT ![i].step = IF rejected THEN "catch" ELSE "then"]
    /\ UNCHANGED <<lastBlock, isActive, flightLog, overlapFrame, genesisVars, netVars>>

\* .then and .catch of applyBlock: isActive.set(false), setImmediate(cb, ...).
OverlapSettled ==
    /\ \E i \in DOMAIN flights :
          /\ flights[i].step \in {"then", "catch"}
          /\ flights' = [flights EXCEPT ![i].step = "callback"]
    /\ isActive' = FALSE
    /\ UNCHANGED <<lastBlock, flightLog, overlapFrame, genesisVars, netVars>>

\* Callback of popLastBlock: the error, or the block before the one read at the call.
OverlapPopLastBlock ==
    /\ \E i \in DOMAIN flights :
          /\ flights[i].step = "popLastBlock"
          /\ \E err \in BOOLEAN :
                flights' = [flights EXCEPT
                              ![i].step = IF err THEN "callback" ELSE "receiveTransactions",
                              ![i].newLastBlock =
                                  IF err THEN NoBlock
                                  ELSE OverlapChain[flights[i].block.height - 1]]
    /\ UNCHANGED <<lastBlock, isActive, flightLog, overlapFrame, genesisVars, netVars>>

\* Callback of receiveTransactions: lastBlock.set(newLastBlock).
OverlapReceiveTransactions ==
    \E i \in DOMAIN flights :
       /\ flights[i].step = "receiveTransactions"
       /\ flights' = [flights EXCEPT ![i].step = "callback"]
       /\ lastBlock' = flights[i].newLastBlock
       /\ flightLog' = Append(flightLog, <<i, flights[i].newLastBlock.id>>)
       /\ UNCHANGED <<isActive, overlapFrame, genesisVars, netVars>>

\* The caller's callback runs.
OverlapCallback ==
    /\ \E i \in DOMAIN flights :
          /\ flights[i].step = "callback"
          /\ flights' = [flights EXCEPT ![i].step = "done"]
    /\ UNCHANGED <<lastBlock, isActive, flightLog, overlapFrame, genesisVars, netVars>>

NextOverlap ==
    \/ OverlapApplyBlock
    \/ OverlapDeleteLastBlock
    \/ OverlapUndoUnconfirmedListStep
    \/ OverlapTx
    \/ OverlapApplyUnconfirmedStep
    \/ OverlapApplyConfirmedStep
    \/ OverlapSaveBlockStep
    \/ OverlapSettled
    \/ OverlapPopLastBlock
    \/ OverlapReceiveTransactions
    \/ OverlapCallback

SpecOverlap == InitOverlap /\ [][NextOverlap]_vars

\* ------------------------------------------------------------------------
\* Properties
\* ------------------------------------------------------------------------
Returned(name) == pc = "idle" /\ result.op = name

IsPrefix(s, t) == Len(s) <= Len(t) /\ \A i \in 1..Len(s) : s[i] = t[i]

RECURSIVE Flatten(_)
Flatten(ss) == IF ss = << >> THEN << >> ELSE Head(ss) \o Flatten(Tail(ss))

NewBlockCount(block) ==
    Cardinality({i \in 1..Len(bus) : bus[i] = Message("newBlock", block)})

\* C1: when applyBlock calls back without error, no transaction of the block
\* is left in the pool, the register holds the block (one above the old tip
\* for a successor), Is-Active is false and exactly one newBlock message for
\* the block was emitted.
ApplyBlockSuccess ==
    (Returned("applyBlock") /\ result.err = None) =>
        /\ op.committed
        /\ Range(op.block.transactions) \cap pool = {}
        /\ lastBlock = op.block
        /\ (op.successor => lastBlock.height = op.pre.lastBlock.height + 1)
        /\ ~isActive
        /\ NewBlockCount(op.block) = 1

ApplyBlockSuccessWitness ==
    /\ Returned("applyBlock")
    /\ result.err = None
    /\ op.saveBlock
    /\ op.successor
    /\ Range(op.block.transactions) \cap op.pre.pool # {}

\* C2 as claimed: a candidate that is not the successor of the register's
\* block is rejected with an error, and register, persisted blocks and
\* confirmed balances stay as they were (looked at where no collaborator
\* step failed, so that only a check of applyBlock itself could reject).
ApplyBlockRejectsNonSuccessor ==
    (Returned("applyBlock") /\ ~op.successor /\ ~op.failed) =>
        /\ result.err # None
        /\ lastBlock = op.pre.lastBlock
        /\ committed.blocks = op.pre.blocks
        /\ \A k \in AccountKeys :
              committed.accounts[k].balance = op.pre.accounts[k].balance

\* C2 amended: applyBlock does not look at parent or height; a candidate that
\* is not the successor of the register's block gets an error exactly when a
\* collaborator step failed, and is applied otherwise.
ApplyBlockDoesNotValidate ==
    (Returned("applyBlock") /\ ~op.successor) =>
        /\ (result.err # None) = op.failed
        /\ (result.err = None =>
               /\ lastBlock = op.block
               /\ (op.saveBlock => op.block \in committed.blocks))
        /\ (result.err # None =>
               /\ committed.blocks = op.pre.blocks
               /\ \A k \in AccountKeys :
                      committed.accounts[k].balance = op.pre.accounts[k].balance)

ApplyBlockDoesNotValidateWitness ==
    /\ Returned("applyBlock")
    /\ ~op.successor
    /\ op.saveBlock
    /\ result.err = None
    /\ op.block \in committed.blocks

IsActiveCleared ==
    /\ (pc \in {"applyUnconfirmedStep", "applyConfirmedStep", "saveBlockStep"} => isActive)
    /\ (pc = "undoUnconfirmedListStep" => ~isActive)
    /\ (pc = "idle" => ~isActive)

IsActiveClearedWitness ==
    /\ Returned("applyBlock")
    /\ result.err = "Rounds#tick error"
    /\ ~isActive

\* C5: a newBlock message is on the bus only once the persistence transaction
\* of its block has committed and the register holds the block.
NewBlockOnlyAfterCommit ==
    \A i \in 1..Len(bus) :
        bus[i].msg = "newBlock" => (op.committed /\ lastBlock.id = bus[i].block)

TxStepCalls == {"setAccountAndGet", "applyUnconfirmed", "getAccount", "apply"}

IsTxStep(c) == c.call \in TxStepCalls

ApplySteps(transactions) ==
    Flatten([i \in 1..Len(transactions) |->
                <<Call("setAccountAndGet", <<transactions[i]>>),
                  Call("applyUnconfirmed", <<transactions[i]>>)>>])
    \o Flatten([i \in 1..Len(transactions) |->
                <<Call("getAccount", <<transactions[i]>>),
                  Call("apply", <<transactions[i]>>)>>])

\* C6: the transaction steps of one applyBlock are called one after the other:
\* the unconfirmed applies in the block's order, then the confirmed applies in
\* the block's order.
ApplyStepsInOrder ==
    op.name = "applyBlock" =>
        /\ IsPrefix(SelectSeq(calls, IsTxStep), ApplySteps(op.block.transactions))
        /\ (pending \in TxStepCalls => calls[Len(calls)].call = pending)
        /\ (pc = "saveBlockStep" =>
               SelectSeq(calls, IsTxStep) = ApplySteps(op.block.transactions))

ApplyStepsInOrderWitness ==
    /\ op.name = "applyBlock"
    /\ pc = "saveBlockStep"
    /\ Len(op.block.transactions) = 2

CannotDeleteGenesis ==
    (op.name = "deleteLastBlock" /\ op.block.height = 1) =>
        /\ pc = "idle"
        /\ result.err = "Cannot delete genesis block"
        /\ calls = << >>
        /\ lastBlock = op.block
        /\ db = committed
        /\ committed.blocks = op.pre.blocks
        /\ committed.accounts = op.pre.accounts
        /\ pool = op.pre.pool

CannotDeleteGenesisWitness ==
    /\ Returned("deleteLastBlock")
    /\ op.block = GenesisBlock
    /\ result.err = "Cannot delete genesis block"

UndoSteps(block) ==
    <<Call("loadBlocksPart", <<block.previousBlock>>)>>
    \o Flatten([i \in 1..Len(block.transactions) |->
                LET t == Reverse(block.transactions)[i] IN
                <<Call("getAccount", <<t>>), Call("undo", <<t>>),
                  Call("undoUnconfirmed", <<t>>)>>])
    \o <<Call("backwardTick", <<block.id, block.previousBlock>>),
         Call("deleteBlock", <<block.id>>)>>

IsPopStep(c) == c.call # "receiveTransactions"

\* C9: popLastBlock loads the parent, undoes the transactions from the last
\* to the first (sender, confirmed undo, unconfirmed undo), then ticks
\* backwards with (old tip, parent), then deletes the block row.
UndoStepsInOrder ==
    op.name = "deleteLastBlock" =>
        /\ IsPrefix(SelectSeq(calls, IsPopStep), UndoSteps(op.block))
        /\ (pc \in {"receiveTransactions"} =>
               SelectSeq(calls, IsPopStep) = UndoSteps(op.block))

UndoStepsInOrderWitness ==
    /\ op.name = "deleteLastBlock"
    /\ pc = "receiveTransactions"
    /\ Len(op.block.transactions) = 2

\* C10: while receiveTransactions runs, the register already holds the parent.
RegisterSetBeforeReinsertion ==
    pc = "receiveTransactions" => lastBlock.id # op.block.id

LastCall == calls[Len(calls)]

HasRow(blocks, id) == \E b \in blocks : b.id = id

\* C11: the transactions handed to receiveTransactions are the old tip's
\* transactions in reversed order, last transaction first.
ReinsertedInReverse ==
    (op.name = "deleteLastBlock" /\ pc = "receiveTransactions"
        /\ HasRow(op.pre.blocks, op.block.id)) =>
        /\ LastCall.call = "receiveTransactions"
        /\ LastCall.args = Reverse(op.block.transactions)

HasCall(name) == \E i \in 1..Len(calls) : calls[i].call = name

\* C12: a failing step inside the persistence transaction of deleteLastBlock
\* ends the process: the register keeps the old tip, nothing is handed to
\* the pool, no callback runs, and nothing runs afterwards.
PopLastBlockFailureIsFatal ==
    /\ [](  (op.name = "deleteLastBlock" /\ op.failed) =>
              /\ pc = "exited"
              /\ lastBlock.id = op.block.id
              /\ pool = op.pre.pool
              /\ ~HasCall("receiveTransactions")
              /\ result = NoResult
              /\ db = committed)
    /\ [][pc = "exited" => pc' = "exited"]_vars

PopLastBlockFailureIsFatalWitness ==
    /\ pc = "exited"
    /\ op.name = "deleteLastBlock"
    /\ LastCall.call = "undoUnconfirmed"
    /\ Len(op.block.transactions) = 2

\* C13: the row of the old tip is deleted within the persistence transaction
\* of deleteLastBlock: it is gone from committed storage only when that
\* transaction has committed, with the undos and the backward tick.
BlockDeletedWithinTransaction ==
    (/\ op.name = "deleteLastBlock"
     /\ HasRow(op.pre.blocks, op.block.id)
     /\ ~HasRow(committed.blocks, op.block.id)) => op.committed

\* C14: saveGenesisBlock is idempotent. When the genesis row is in storage at
\* entry nothing is written, no batch is issued and the call can only fail
\* in the lookup; otherwise the only write is the genesis block with its
\* transactions, in one piece; a call that succeeded leaves the row in
\* storage; a lookup failure is reported and writes nothing; and once a call
\* has succeeded, later calls leave the persisted blocks and transactions
\* as that call left them.
SaveGenesisBlockIdempotent ==
    /\ op.name = "saveGenesisBlock" =>
          /\ HasRow(op.pre.blocks, op.block.id) =>
                /\ committed.blocks = op.pre.blocks
                /\ ~HasCall("batch")
                /\ Returned("saveGenesisBlock") =>
                      result.err \in {None, "Blocks#saveGenesisBlock error"}
          /\ committed.blocks \in {op.pre.blocks, op.pre.blocks \cup {op.block}}
          /\ (Returned("saveGenesisBlock") /\ result.err = None) =>
                HasRow(committed.blocks, op.block.id)
          /\ (Returned("saveGenesisBlock") /\ result.err = "Blocks#saveGenesisBlock error") =>
                /\ committed.blocks = op.pre.blocks
                /\ calls = <<Call("getGenesisBlockId", <<op.block.id>>)>>
    /\ saved.count >= 1 => committed.blocks = saved.blocks

SaveGenesisBlockIdempotentWitness ==
    /\ Returned("saveGenesisBlock")
    /\ result.err = None
    /\ saved.count = 2
    /\ saved.wrote
    /\ Len(op.block.transactions) >= 2

AppliedOrder ==
    LET IsApply(c) == c.call = "apply"
        applied == SelectSeq(calls, IsApply)
    IN [i \in 1..Len(applied) |-> applied[i].args[1]]

StablePartition(transactions) ==
    LET IsVote(id) == GenesisTransaction(id).type = "VOTE"
        IsOther(id) == GenesisTransaction(id).type # "VOTE"
    IN SelectSeq(transactions, IsOther) \o SelectSeq(transactions, IsVote)

\* C15: the genesis transactions are applied in the order of the stable
\* partition of the raw sequence: non-VOTE transactions first, VOTE
\* transactions after them, each group in its raw order.
GenesisAppliedAsStablePartition ==
    op.name = "applyGenesisBlock" =>
        IsPrefix(AppliedOrder, StablePartition(op.block.transactions))

GenesisSteps(transactions) ==
    Flatten([i \in 1..Len(transactions) |->
        <<Call("setAccountAndGet", <<GenesisTransaction(transactions[i]).senderPublicKey>>),
          Call("applyUnconfirmed", <<transactions[i]>>),
          Call("apply", <<transactions[i]>>)>>])

\* C16: applyGenesisBlock calls, for each transaction of the sorted block in
\* turn, setAccountAndGet with the sender's public key, then applyUnconfirmed,
\* then apply, one call at a time; the register is set to the genesis block
\* (height 1) and rounds.tick is called, once, only after the steps of all
\* transactions, and nothing is called after it.
ApplyGenesisStepsInOrder ==
    op.name = "applyGenesisBlock" =>
        LET steps == GenesisSteps(genesisblock.transactions)
            tick == <<Call("tick", <<genesisblock.id>>)>>
        IN /\ IsPrefix(calls, steps \o tick)
           /\ pending # None => LastCall.call = pending
           /\ (lastBlock # op.pre.lastBlock \/ HasCall("tick")) =>
                 /\ calls = steps \o tick
                 /\ lastBlock = genesisblock
                 /\ lastBlock.height = 1
           /\ Returned("applyGenesisBlock") => calls = steps \o tick

ApplyGenesisStepsInOrderWitness ==
    /\ Returned("applyGenesisBlock")
    /\ result.err = None
    /\ Len(genesisblock.transactions) = 3
    /\ lastBlock = genesisblock

\* C17: when setAccountAndGet, applyUnconfirmed or apply fails for a genesis
\* transaction, the process exits: no step of a later transaction is called,
\* the register keeps its value, rounds.tick is not called, the callback of
\* applyGenesisBlock is never called, and nothing runs afterwards.
GenesisFailureIsFatal ==
    /\ []((op.name = "applyGenesisBlock" /\ op.failed /\ result.err # "Rounds#tick error") =>
             /\ pc = "exited"
             /\ lastBlock = op.pre.lastBlock
             /\ ~HasCall("tick")
             /\ result = NoResult
             /\ IsPrefix(calls, GenesisSteps(genesisblock.transactions))
             /\ Len(calls) \in (3 * (idx - 1) + 1)..(3 * idx))
    /\ [][pc = "exited" => pc' = "exited"]_vars

GenesisFailureIsFatalWitness ==
    /\ pc = "exited"
    /\ op.name = "applyGenesisBlock"
    /\ LastCall.call = "apply"
    /\ idx = 1
    /\ Len(genesisblock.transactions) >= 2

TxStepErrors ==
    {"Failed to get account to apply unconfirmed transaction",
     "Failed to apply unconfirmed transaction",
     "Failed to get account to apply transaction",
     "Failed to apply transaction"}

ErrorOf(call) ==
    CASE call = "setAccountAndGet" -> "Failed to get account to apply unconfirmed transaction"
      [] call = "applyUnconfirmed" -> "Failed to apply unconfirmed transaction"
      [] call = "getAccount"       -> "Failed to get account to apply transaction"
      [] OTHER                     -> "Failed to apply transaction"

\* C18: when a transaction step of applyBlock fails, the failed call is the
\* last call of the operation (no further transaction step, no block save, no
\* tick), the persistence transaction is rolled back (no block row, confirmed
\* balances as before), the register holds the previous tip, Is-Active is
\* false, no message was emitted, the pool holds what it held, and the
\* callback has received the error of the failed step.
TransactionStepFailure ==
    (op.name = "applyBlock" /\ op.failed /\ LastCall.call \in TxStepCalls) =>
        /\ Returned("applyBlock")
        /\ result.err = ErrorOf(LastCall.call)
        /\ IsPrefix(calls, <<Call("undoUnconfirmedList", << >>)>>
                               \o ApplySteps(op.block.transactions))
        /\ ~HasCall("batch") /\ ~HasCall("afterSave") /\ ~HasCall("tick")
        /\ db = committed
        /\ committed.blocks = op.pre.blocks
        /\ committed.rounds = db.rounds
        /\ \A k \in AccountKeys : committed.accounts[k].balance = op.pre.accounts[k].balance
        /\ lastBlock = op.pre.lastBlock
        /\ ~isActive
        /\ bus = << >>
        /\ pool = op.pre.pool
        /\ ~op.committed

TransactionStepFailureWitness ==
    /\ Returned("applyBlock")
    /\ result.err = "Failed to apply transaction"
    /\ Len(op.block.transactions) = 2
    /\ LastCall = Call("apply", <<op.block.transactions[2]>>)
    /\ Range(op.block.transactions) \cap pool # {}

\* C19: when undoUnconfirmedList fails at the start of applyBlock, the callback
\* receives 'Failed to undo unconfirmed list' at once: undoUnconfirmedList is
\* the only call made, no persistence transaction was opened (storage is as
\* it was at entry), Is-Active is false while undoUnconfirmedList is awaited
\* and afterwards, nothing was emitted and register and pool are unchanged.
UndoUnconfirmedListFailure ==
    /\ (op.name = "applyBlock" /\ pc = "undoUnconfirmedListStep") =>
          /\ ~isActive
          /\ db = committed
          /\ committed.blocks = op.pre.blocks
          /\ committed.accounts = op.pre.accounts
    /\ (op.name = "applyBlock" /\ op.failed /\ LastCall.call = "undoUnconfirmedList") =>
          /\ Returned("applyBlock")
          /\ result.err = "Failed to undo unconfirmed list"
          /\ calls = <<Call("undoUnconfirmedList", << >>)>>
          /\ ~isActive
          /\ db = committed
          /\ committed.blocks = op.pre.blocks
          /\ committed.accounts = op.pre.accounts
          /\ lastBlock = op.pre.lastBlock
          /\ bus = << >>
          /\ pool = op.pre.pool

UndoUnconfirmedListFailureWitness ==
    /\ Returned("applyBlock")
    /\ result.err = "Failed to undo unconfirmed list"
    /\ op.saveBlock
    /\ Len(op.block.transactions) = 2
    /\ op.pre.pool # {}

CallCount(name) == Len(SelectSeq(calls, LAMBDA c : c.call = name))

AllSteps(block) ==
    <<Call("undoUnconfirmedList", << >>)>> \o ApplySteps(block.transactions)

\* C20: in applyBlock the calls after the transaction steps are, with
\* saveBlock, the batch of the block with its transactions, afterSave and
\* then the tick, and while the tick runs the block row is written inside
\* the still open persistence transaction; without saveBlock the tick only,
\* and no block row is written. A successful applyBlock has called the tick
\* exactly once, and after a tick failure the persisted blocks are those
\* from before the call.
SaveBlockStepThenTick ==
    op.name = "applyBlock" =>
        /\ CallCount("tick") <= 1
        /\ CallCount("batch") <= 1
        /\ op.saveBlock =>
              /\ HasCall("batch") =>
                    IsPrefix(AllSteps(op.block) \o <<Call("batch", <<op.block.id>>)>>, calls)
              /\ HasCall("tick") =>
                    calls = AllSteps(op.block) \o <<Call("batch", <<op.block.id>>),
                                                    Call("afterSave", <<op.block.id>>),
                                                    Call("tick", <<op.block.id>>)>>
              /\ pending = "tick" =>
                    /\ op.block \in db.blocks
                    /\ committed.blocks = op.pre.blocks
        /\ ~op.saveBlock =>
              /\ ~HasCall("batch") /\ ~HasCall("afterSave")
              /\ HasCall("tick") =>
                    calls = AllSteps(op.block) \o <<Call("tick", <<op.block.id>>)>>
              /\ db.blocks = op.pre.blocks
              /\ committed.blocks = op.pre.blocks
        /\ (Returned("applyBlock") /\ result.err = None) => CallCount("tick") = 1
        /\ (Returned("applyBlock") /\ result.err \in {"Rounds#tick error", "Snapshot finished"}) =>
              /\ LastCall.call = "tick"
              /\ db = committed
              /\ committed.blocks = op.pre.blocks

SaveBlockStepThenTickWitness ==
    /\ Returned("applyBlock")
    /\ result.err = "Rounds#tick error"
    /\ op.saveBlock
    /\ HasCall("batch")
    /\ Len(op.block.transactions) = 2
    /\ ~HasRow(op.pre.blocks, op.block.id)

\* C21 as claimed: when the persistence transaction of applyBlock is rejected
\* with 'Snapshot finished', Is-Active is cleared, SIGTERM is raised and the
\* callback of applyBlock is not given an error.
SnapshotFinishedIsNotAFailure ==
    (op.name = "applyBlock" /\ LastCall.call = "tick" /\ op.failed /\ sigterm) =>
        /\ ~isActive
        /\ result.err = None

\* C21 amended: when the persistence transaction of applyBlock is rejected
\* with 'Snapshot finished', the transaction is rolled back (the block is not
\* persisted), Is-Active is cleared, SIGTERM is raised, and the callback of
\* applyBlock receives the sentinel as its error, as it would any other
\* rejection; SIGTERM is raised for no other reason.
SnapshotFinishedSignalsAndFails ==
    /\ (Returned("applyBlock") /\ result.err = "Snapshot finished") =>
          /\ sigterm
          /\ ~isActive
          /\ op.failed /\ ~op.committed
          /\ LastCall.call = "tick"
          /\ db = committed
          /\ committed.blocks = op.pre.blocks
    /\ sigterm => (Returned("applyBlock") /\ result.err = "Snapshot finished")

SnapshotFinishedSignalsAndFailsWitness ==
    /\ Returned("applyBlock")
    /\ result.err = "Snapshot finished"
    /\ sigterm
    /\ op.saveBlock
    /\ Len(op.block.transactions) >= 1

Continuous(blocks) ==
    \A b \in blocks :
        b.height > 1 =>
            \E p \in blocks : p.id = b.previousBlock /\ p.height = b.height - 1

\* C23: after every completed operation every persisted block above height 1
\* has its parent persisted one height below it (looked at where every block
\* handed to applyBlock so far named the register's block as its parent).
PersistedChainIsContinuous ==
    (pc = "idle" /\ \A b \in committed.blocks : b.previousBlock # UnknownId) =>
        Continuous(committed.blocks)

MaxHeight(blocks) ==
    IF blocks = {} THEN 0
    ELSE CHOOSE h \in {b.height : b \in blocks} : \A b \in blocks : b.height <= h

\* C24: after an operation has called back, the height of the register's
\* block is the maximum height among the persisted blocks (looked at for an
\* applyBlock of a successor with saveBlock = true on a state where this was
\* so, and for deleteLastBlock on such a state).
RegisterHeightIsMaxHeight ==
    (/\ pc = "idle"
     /\ op.name \in {"applyBlock", "deleteLastBlock"}
     /\ op.name = "applyBlock" => (op.saveBlock /\ op.successor)
     /\ op.pre.lastBlock.height = MaxHeight(op.pre.blocks)) =>
        lastBlock.height = MaxHeight(committed.blocks)

\* C25: after every completed operation no transaction of the pool is in a
\* persisted block.
PoolDisjointFromPersisted ==
    pc = "idle" => pool \cap PersistedTxIds(committed.blocks) = {}

ReceiveTransactionsErrorIsLoggedOnly ==
    /\ (op.name = "deleteLastBlock" /\ op.committed /\ pc = "idle") =>
          /\ result.op = "deleteLastBlock"
          /\ result.err = None
          /\ result.value = previousBlock
          /\ result.value.id = SecondLastBlockId(op.block)
          /\ lastBlock = result.value
          /\ pool \in {op.pre.pool, op.pre.pool \cup Range(op.block.transactions)}
    /\ (rt.phase = "deleted" /\ ~rt.reinserted) => pool = op.pre.pool

ReceiveTransactionsErrorIsLoggedOnlyWitness ==
    /\ Returned("deleteLastBlock")
    /\ rt.phase = "deleted"
    /\ ~rt.reinserted
    /\ Len(op.block.transactions) >= 1
    /\ Range(op.block.transactions) \cap pool = {}
    /\ lastBlock.id = SecondLastBlockId(op.block)

HasColon(procedure) == \E k \in 1..Len(procedure) : procedure[k] = ":"

\* C28: a request the P2P library has answered already leads to no channel
\* call and no response; any other request leads to one channel call, of the
\* request's procedure if it holds ':' and of 'chain:' followed by the
\* procedure if it does not, and once the handler has returned, exactly one
\* of request.end and request.error has been called, once, unless
\* request.end threw.
RequestAnsweredOnce ==
    \A i \in 1..Len(requests) :
        LET r == requests[i] IN
        /\ r.wasResponseSent =>
              /\ r.pc = "returned"
              /\ r.invoked = << >>
              /\ r.responses = << >>
        /\ ~r.wasResponseSent =>
              /\ HasColon(r.procedure) => r.invoked = <<r.procedure>>
              /\ ~HasColon(r.procedure) =>
                    r.invoked = <<<<"c", "h", "a", "i", "n", ":">> \o r.procedure>>
              /\ r.pc = "invokePublic" => r.responses = << >>
              /\ (r.pc = "returned" /\ ~r.endThrew) =>
                    r.responses \in {<<"end">>, <<"error">>}
              /\ r.endThrew => r.responses = <<"end", "error">>

RequestAnsweredOnceWitness ==
    /\ Len(requests) = 2
    /\ ~requests[1].wasResponseSent
    /\ requests[1].procedure = <<"a", "a">>
    /\ requests[1].responses = <<"end">>
    /\ ~requests[2].wasResponseSent
    /\ requests[2].procedure = <<"a", ":">>
    /\ requests[2].responses = <<"error">>

HasNetCall(name) == \E i \in 1..Len(netCalls) : netCalls[i] = name

\* C29: with no connected peer, cleanup neither deletes nor creates and the
\* saved peers stay; with connected peers it deletes all saved peers, then
\* creates one row per connected peer, with ip, a state that is the peer's
\* or 2 and a protocolVersion that is the peer's or ''. p2p.stop() is the
\* last call, made only when delete and create have succeeded or were not
\* needed.
CleanupReplacesSavedPeers ==
    /\ connectedPeers = << >> =>
          /\ peerStore = SavedPeers
          /\ IsPrefix(netCalls, <<"getNetworkStatus", "p2p.stop">>)
    /\ connectedPeers # << >> =>
          /\ IsPrefix(netCalls, <<"getNetworkStatus", "Peer.delete", "Peer.create", "p2p.stop">>)
          /\ ~HasNetCall("Peer.delete") => peerStore = SavedPeers
          /\ (HasNetCall("Peer.create") /\ ~HasNetCall("p2p.stop")) =>
                peerStore = {}
          /\ HasNetCall("p2p.stop") =>
                /\ peerStore =
                      {[ip |-> connectedPeers[i].ipAddress,
                        state |-> IF connectedPeers[i].state \in {1, 2}
                                  THEN connectedPeers[i].state ELSE 2,
                        protocolVersion |-> connectedPeers[i].protocolVersion] :
                          i \in 1..Len(connectedPeers)}
                /\ \A p \in peerStore : p.state # 0
    /\ cleanupPc \in {"stop", "stopped"} => netCalls[Len(netCalls)] = "p2p.stop"
    /\ (cleanupPc = "rejected" /\ HasNetCall("p2p.stop")) =>
          netCalls[Len(netCalls)] = "p2p.stop"
    /\ (cleanupPc = "rejected" /\ netCalls[Len(netCalls)] \in {"Peer.delete", "Peer.create"}) =>
          ~HasNetCall("p2p.stop")

CleanupReplacesSavedPeersWitness ==
    /\ cleanupPc = "stopped"
    /\ Len(connectedPeers) = 2
    /\ connectedPeers[1].state = 0
    /\ connectedPeers[2].protocolVersion = ""
    /\ HasNetCall("Peer.create")
    /\ peerStore \cap SavedPeers = {}

\* C22: apply-block and undo-block sequences are mutually exclusive: a call
\* of applyBlock or deleteLastBlock made while another one has started and
\* not yet called back does not take its steps between the steps of the
\* first; at most one of them has steps in flight at any instant.
AtMostOneInFlight ==
    \A i, j \in DOMAIN flights :
       (i # j /\ MidPipeline(flights[i])) =>
          ~MidPipeline(flights[j])

====
